---- MODULE Spec2Model ----
(***************************************************************************)
(* A model of the adaptive_sched kernel module (version 0.5, the           *)
(* multi-core variant): the per-CPU load sampler get_cpu_load, the         *)
(* self-rearming delayed work load_work_func, the sysfs attributes         *)
(* boost_level / current_load / max_load / target_pid, and module          *)
(* init / exit.                                                            *)
(***************************************************************************)
EXTENDS Integers, Sequences, FiniteSets, TLC

(***************************************************************************)
(* Bounds of the model.                                                    *)
(***************************************************************************)
\* Size of the per-CPU tables prev_idle[] / prev_total[]; possible CPUs are
\* 0 .. NR_CPUS-1.
NR_CPUS == 2
\* Concurrent sysfs callers (threads of user space inside show/store).
NumCallers == 2
\* Process ids a writer may name are 1 .. MaxPid (and 0 = unset).
MaxPid == 2

\* The arguments boost_to_nice is called with on its own: -MaxLevel..MaxLevel.
MaxLevel == 40

(***************************************************************************)
(* u64 arithmetic.  A u64 is four 16-bit limbs, least significant first;   *)
(* every operation wraps modulo 2^64 as the C operators on u64 do.         *)
(***************************************************************************)
Limb == 2^16

U64(n) == <<n % Limb, (n \div Limb) % Limb, 0, 0>>

U64Zero == <<0, 0, 0, 0>>

\* The operators below take their operands through a one-element set, so
\* that an operand written as a nested expression is evaluated once.
AddLimbs(x, y) ==
    LET s1 == x[1] + y[1]
        s2 == x[2] + y[2] + (s1 \div Limb)
        s3 == x[3] + y[3] + (s2 \div Limb)
        s4 == x[4] + y[4] + (s3 \div Limb)
    IN  <<s1 % Limb, s2 % Limb, s3 % Limb, s4 % Limb>>

U64Add(a, b) == CHOOSE s \in {AddLimbs(x, y) : x \in {a}, y \in {b}} : TRUE

SubLimbs(x, y) ==
    LET s1 == x[1] - y[1]
        s2 == x[2] - y[2] + (s1 \div Limb)
        s3 == x[3] - y[3] + (s2 \div Limb)
        s4 == x[4] - y[4] + (s3 \div Limb)
    IN  <<s1 % Limb, s2 % Limb, s3 % Limb, s4 % Limb>>

U64Sub(a, b) == CHOOSE s \in {SubLimbs(x, y) : x \in {a}, y \in {b}} : TRUE

\* x * k as five limbs, the fifth the carry out of 64 bits (k < 2^14).
MulLimbs(x, k) ==
    LET s1 == x[1] * k
        s2 == x[2] * k + (s1 \div Limb)
        s3 == x[3] * k + (s2 \div Limb)
        s4 == x[4] * k + (s3 \div Limb)
    IN  <<s1 % Limb, s2 % Limb, s3 % Limb, s4 % Limb, s4 \div Limb>>

WideMul(a, k) == CHOOSE s \in {MulLimbs(x, k) : x \in {a}} : TRUE

\* a * k, wrapped.
U64Mul(a, k) == CHOOSE s \in {SubSeq(m, 1, 4) : m \in {WideMul(a, k)}} : TRUE

\* The carry out of a * k: nonzero when the product leaves 64 bits.
U64MulCarry(a, k) == WideMul(a, k)[5]

\* Comparison of limb sequences of one length, the last limb the most
\* significant.
LimbsLt(x, y) ==
    \E i \in 1..Len(x) : x[i] < y[i] /\ \A j \in (i + 1)..Len(x) : x[j] = y[j]

U64Lt(a, b) == \E x \in {a}, y \in {b} : LimbsLt(x, y)

\* r < d * k, the product taken without wrapping.
U64LtMul(r, d, k) ==
    \E x \in {r}, m \in {WideMul(d, k)} : m[5] # 0 \/ LimbsLt(x, SubSeq(m, 1, 4))

\* Quotient and remainder of r by d when r < d * 2^i (i <= 8), one bit of
\* the quotient at a time.
RECURSIVE U64DivBits(_, _, _)
U64DivBitSet(h, i) ==
    CHOOSE s \in {[q |-> 2^(i - 1) + v.q, r |-> v.r] : v \in {h}} : TRUE

U64DivBits(r, d, i) ==
    IF i = 0 THEN [q |-> 0, r |-> r]
    ELSE IF U64LtMul(r, d, 2^(i - 1)) THEN U64DivBits(r, d, i - 1)
    ELSE U64DivBitSet(U64DivBits(U64Sub(r, U64Mul(d, 2^(i - 1))), d, i - 1), i)

\* Unsigned division n / d by long division, eight bits of the quotient per
\* level.  (d = 0 is a divide error, which get_cpu_load reports as a fault;
\* no quotient exists then.)
RECURSIVE U64DivMod(_, _)
U64DivLow(lo, hq) ==
    CHOOSE s \in {[q |-> U64Add(U64Mul(hq, 256), U64(v.q)), r |-> v.r] : v \in {lo}} : TRUE

U64DivByte(h, d) ==
    CHOOSE s \in {U64DivLow(U64DivBits(v.r, d, 8), v.q) : v \in {h}} : TRUE

U64DivMod(n, d) ==
    IF d = U64Zero THEN [q |-> U64Zero, r |-> U64Zero]
    ELSE IF U64LtMul(n, d, 256) THEN U64DivLow(U64DivBits(n, d, 8), U64Zero)
    ELSE U64DivByte(U64DivMod(n, U64Mul(d, 256)), d)

U64Div(n, d) == U64DivMod(n, d).q

\* The conversion (int)x of a u64: the low 32 bits, read as two's complement.
U64ToInt(u) ==
    CHOOSE n \in {IF x[2] >= Limb \div 2 THEN (x[2] - Limb) * Limb + x[1]
                  ELSE x[2] * Limb + x[1] : x \in {u}} : TRUE

(***************************************************************************)
(* Text.  A buffer is a sequence of one-character strings.                 *)
(***************************************************************************)
Digits == <<"0", "1", "2", "3", "4", "5", "6", "7", "8", "9">>

IsDigit(ch) == \E i \in 1..10 : Digits[i] = ch

DigitVal(ch) == (CHOOSE i \in 1..10 : Digits[i] = ch) - 1

INT_MAX == 2^30 + (2^30 - 1)

INT_MIN == -INT_MAX - 1

\* _parse_integer + the range checks of kstrtoll/kstrtoint: the digits of s
\* from position i on, accumulated onto acc with sign sg (1 or -1); ovf is
\* set once the value leaves the range of int.
RECURSIVE ParseDigits(_, _, _, _, _)
ParseDigits(s, i, acc, sg, ovf) ==
    IF i > Len(s) \/ ~IsDigit(s[i]) THEN [val |-> acc, ovf |-> ovf, next |-> i]
    ELSE LET d == DigitVal(s[i])
         IN  IF ovf THEN ParseDigits(s, i + 1, acc, sg, TRUE)
             ELSE IF sg = 1 /\ acc > (INT_MAX - d) \div 10
                  THEN ParseDigits(s, i + 1, acc, sg, TRUE)
             ELSE IF sg = -1 /\ acc < (INT_MIN + d + 9) \div 10
                  THEN ParseDigits(s, i + 1, acc, sg, TRUE)
             ELSE ParseDigits(s, i + 1, acc * 10 + sg * d, sg, FALSE)

\* kstrtoint(buf, 10, &val): an optional sign, at least one decimal digit,
\* an optional single trailing newline, then the end of the string.
\* rc = 0 and val on success; rc = -22 (-EINVAL) or -34 (-ERANGE) otherwise.
kstrtoint(s) ==
    LET neg   == Len(s) >= 1 /\ s[1] = "-"
        plus  == Len(s) >= 1 /\ s[1] = "+"
        start == IF neg \/ plus THEN 2 ELSE 1
        p     == ParseDigits(s, start, 0, IF neg THEN -1 ELSE 1, FALSE)
        after == IF p.next <= Len(s) /\ s[p.next] = "\n" THEN p.next + 1
                 ELSE p.next
    IN  IF p.next = start THEN [rc |-> -22, val |-> 0]
        ELSE IF p.ovf THEN [rc |-> -34, val |-> 0]
        ELSE IF after <= Len(s) THEN [rc |-> -22, val |-> 0]
        ELSE [rc |-> 0, val |-> p.val]

\* The decimal digits of n >= 0.
RECURSIVE NatText(_)
NatText(n) ==
    IF n < 10 THEN <<Digits[n + 1]>>
    ELSE Append(NatText(n \div 10), Digits[(n % 10) + 1])

\* scnprintf with the format "%d": no newline after the number.
scnprintf_nonl(n) == IF n < 0 THEN <<"-">> \o NatText(-n) ELSE NatText(n)

\* scnprintf(buf, PAGE_SIZE, "%d\n", n)
scnprintf(n) ==
    (IF n < 0 THEN <<"-">> \o NatText(-n) ELSE NatText(n)) \o <<"\n">>

(***************************************************************************)
(* Inputs.                                                                 *)
(***************************************************************************)
\* One CPU's kernel_cpustat counters, as get_cpu_load reads them.
Stat(user, nice, system, idle, iowait, irq, softirq, steal) ==
    [user |-> user, nice |-> nice, system |-> system, idle |-> idle,
     iowait |-> iowait, irq |-> irq, softirq |-> softirq, steal |-> steal]

StatZero == Stat(U64Zero, U64Zero, U64Zero, U64Zero, U64Zero, U64Zero, U64Zero, U64Zero)

\* user / idle only, the other counters 0.
StatUI(user, idle) ==
    Stat(user, U64Zero, U64Zero, idle, U64Zero, U64Zero, U64Zero, U64Zero)

\* The counter values a read of kcpustat_cpu(cpu) may observe.  The counters
\* belong to the kernel; the module only reads them.
CpuStats ==
    { StatZero,
      StatUI(U64(100), U64(800)),                  \* total 900, idle_all 800
      StatUI(U64(150), U64(800)),                  \* total 950, idle_all 800
      Stat(U64(100), U64(10), U64(30), U64(800), U64(45), U64(5), U64(5), U64(5)),
                                                   \* total 1000, idle_all 845
      StatUI(U64(99), U64(804)),                   \* total 903, idle_all 804
      StatUI(U64(99), U64(802)),                   \* total 901, idle_all 802
      StatUI(U64(99), U64(1)),                     \* total 100, idle_all 1
      StatUI(U64Sub(U64Zero, U64(50)), U64(40)) }  \* total 2^64 - 10

\* The texts a writer may pass to a store handler.
WriteTexts ==
    { <<"0">>, <<"1", "\n">>, <<"2">>, <<"3">>, <<"7">>, <<"-", "1">>,
      <<"-", "7">>, <<"+", "1">>, <<"1", "2">>, <<"2", " ">>, <<"a", "b", "c">>, <<>>,
      <<"9", "9", "9", "9", "9", "9", "9", "9", "9", "9">> }

\* The texts of the writers that race each other.
RaceTexts ==
    { <<"0">>, <<"1", "\n">>, <<"2">>, <<"7">>, <<"-", "1">>, <<"a", "b", "c">> }

CPUs == 0 .. (NR_CPUS - 1)

Callers == 1 .. NumCallers

Pids == 1 .. MaxPid

\* The host's process table is an input: the odd pids name live processes.
LivePids == {p \in Pids : p % 2 = 1}

\* boost_to_nice with the value of case 1 repeated in case 2.
boost_to_nice_flat(boost) ==
    CASE boost = 0 -> 0
      [] boost = 1 -> -2
      [] boost = 2 -> -2
      [] OTHER     -> -10

(***************************************************************************)
(* Pure helpers of the module.                                             *)
(***************************************************************************)
\* static int boost_to_nice(int boost)
boost_to_nice(boost) ==
    CASE boost = 0 -> 0
      [] boost = 1 -> -2
      [] boost = 2 -> -5
      [] OTHER     -> -10

\* idle_all = idle + iowait
StatIdleAll(st) == U64Add(st.idle, st.iowait)

\* total = user + nice + system + idle_all + irq + softirq + steal
StatTotal(st) ==
    U64Add(U64Add(U64Add(U64Add(U64Add(U64Add(st.user, st.nice), st.system),
           StatIdleAll(st)), st.irq), st.softirq), st.steal)

\* get_cpu_load, line 117:
\* (int)(((diff_total - diff_idle) * 100) / diff_total)
load_quotient(diff_total, diff_idle) ==
    U64ToInt(U64Div(U64Mul(U64Sub(diff_total, diff_idle), 100), diff_total))

\* get_cpu_load keeping one baseline for all CPUs.
get_cpu_load_shared(cpu, st, pt, pi) ==
    LET idle_all   == U64Add(st.idle, st.iowait)
        total      == U64Add(U64Add(U64Add(U64Add(U64Add(U64Add(st.user, st.nice),
                          st.system), idle_all), st.irq), st.softirq), st.steal)
        diff_total == U64Sub(total, pt[cpu])
        diff_idle  == U64Sub(idle_all, pi[cpu])
        npt        == [c \in DOMAIN pt |-> total]
        npi        == [c \in DOMAIN pi |-> idle_all]
    IN  IF pt[cpu] = U64Zero
        THEN [ret |-> 0, prev_total |-> npt, prev_idle |-> npi, fault |-> FALSE]
        ELSE IF diff_total = U64Zero
        THEN [ret |-> 0, prev_total |-> npt, prev_idle |-> npi, fault |-> FALSE]
        ELSE [ret |-> load_quotient(diff_total, diff_idle),
              prev_total |-> npt, prev_idle |-> npi, fault |-> FALSE]

\* get_cpu_load without the first-measurement branch.
get_cpu_load_nofirst(cpu, st, pt, pi) ==
    LET idle_all   == U64Add(st.idle, st.iowait)
        total      == U64Add(U64Add(U64Add(U64Add(U64Add(U64Add(st.user, st.nice),
                          st.system), idle_all), st.irq), st.softirq), st.steal)
        diff_total == U64Sub(total, pt[cpu])
        diff_idle  == U64Sub(idle_all, pi[cpu])
        npt        == [pt EXCEPT ![cpu] = total]
        npi        == [pi EXCEPT ![cpu] = idle_all]
    IN  IF diff_total = U64Zero
        THEN [ret |-> 0, prev_total |-> npt, prev_idle |-> npi, fault |-> FALSE]
        ELSE [ret |-> load_quotient(diff_total, diff_idle),
              prev_total |-> npt, prev_idle |-> npi, fault |-> FALSE]

\* get_cpu_load without the diff_total == 0 branch.
get_cpu_load_nozero(cpu, st, pt, pi) ==
    LET idle_all   == U64Add(st.idle, st.iowait)
        total      == U64Add(U64Add(U64Add(U64Add(U64Add(U64Add(st.user, st.nice),
                          st.system), idle_all), st.irq), st.softirq), st.steal)
        diff_total == U64Sub(total, pt[cpu])
        diff_idle  == U64Sub(idle_all, pi[cpu])
        npt        == [pt EXCEPT ![cpu] = total]
        npi        == [pi EXCEPT ![cpu] = idle_all]
    IN  IF pt[cpu] = U64Zero
        THEN [ret |-> 0, prev_total |-> npt, prev_idle |-> npi, fault |-> FALSE]
        ELSE [ret |-> load_quotient(diff_total, diff_idle),
              prev_total |-> npt, prev_idle |-> npi,
              fault |-> (diff_total = U64Zero)]

\* get_cpu_load without the test of lines 84-85: an identifier past the
\* tables indexes them all the same.
get_cpu_load_nobound(cpu, st, pt, pi) ==
    [ret |-> 0,
     prev_total |-> [c \in DOMAIN pt \cup {cpu} |->
                       IF c = cpu THEN StatTotal(st) ELSE pt[c]],
     prev_idle |-> [c \in DOMAIN pi \cup {cpu} |->
                      IF c = cpu THEN StatIdleAll(st) ELSE pi[c]],
     fault |-> cpu >= NR_CPUS]

\* static int get_cpu_load(int cpu), reading the counters st with the
\* baseline tables pt = prev_total and pi = prev_idle.  The result is the
\* returned int, the tables after the call, and fault: the division at
\* line 117 was reached with diff_total = 0 (a divide error).
get_cpu_load(cpu, st, pt, pi) ==
    LET idle_all   == StatIdleAll(st)
        total      == StatTotal(st)
        diff_total == U64Sub(total, pt[cpu])
        diff_idle  == U64Sub(idle_all, pi[cpu])
        npt        == [pt EXCEPT ![cpu] = total]
        npi        == [pi EXCEPT ![cpu] = idle_all]
    IN  IF cpu >= NR_CPUS
        THEN [ret |-> 0, prev_total |-> pt, prev_idle |-> pi, fault |-> FALSE]
        ELSE IF pt[cpu] = U64Zero
        THEN [ret |-> 0, prev_total |-> npt, prev_idle |-> npi, fault |-> FALSE]
        ELSE IF diff_total = U64Zero
        THEN [ret |-> 0, prev_total |-> npt, prev_idle |-> npi, fault |-> FALSE]
        ELSE [ret |-> load_quotient(diff_total, diff_idle),
              prev_total |-> npt, prev_idle |-> npi,
              fault |-> (diff_total = U64Zero)]

\* for_each_possible_cpu in place of for_each_online_cpu: the next CPU
\* after cpu, online or not.
cpumask_next_possible(cpu, mask) == cpu + 1

\* for_each_online_cpu: the next online CPU after cpu, or NR_CPUS when the
\* mask holds none.
cpumask_next(cpu, mask) ==
    IF \E c \in mask : c > cpu
    THEN CHOOSE c \in mask : c > cpu /\ \A d \in mask : d > cpu => c <= d
    ELSE NR_CPUS

\* clamp_load without its lower limit.
clamp_load_nolower(load) == IF load > 100 THEN 100 ELSE load

\* The clamp applied to a sampled load, lines 309-312.
clamp_load(load) == IF load < 0 THEN 0 ELSE IF load > 100 THEN 100 ELSE load

\* boost_clamp without its upper limit.
boost_clamp_noupper(val) == IF val < 0 THEN 0 ELSE val

\* The clamp of boost_store, lines 181-182.
boost_clamp(val) == IF val < 0 THEN 0 ELSE IF val > 3 THEN 3 ELSE val

\* target_pid_store without its clamp.
pid_clamp_none(pid_val) == pid_val

\* The clamp target_pid_store applies, line 251.
pid_clamp(pid_val) == IF pid_val < 0 THEN 0 ELSE pid_val

\* schedule_delayed_work(&load_work, ...): arms the timer unless the work is
\* already pending; refused while cancel_delayed_work_sync holds the work.
schedule_delayed_work(pending, canceling) ==
    IF canceling THEN pending ELSE TRUE

(***************************************************************************)
(* State.                                                                  *)
(***************************************************************************)
VARIABLES
    boost_level,      \* static int boost_level
    current_load,     \* static int current_load
    max_load,         \* static int max_load
    target_pid,       \* static pid_t target_pid
    prev_idle,        \* static u64 prev_idle[NR_CPUS]
    prev_total,       \* static u64 prev_total[NR_CPUS]
    adaptive_kobj,    \* the kobject exists
    sysfs_group,      \* the attribute group is registered
    work_pending,     \* load_work: timer armed / work queued
    work_canceling,   \* load_work: held by cancel_delayed_work_sync
    mpc,              \* where module init / exit stands
    init_ret,         \* what adaptive_sched_init returned (1: not yet)
    wpc,              \* where load_work_func stands ("idle": not running)
    w,                \* the locals of load_work_func
    caller,           \* the sysfs callers: position and locals
    kcpustat,         \* the counters each CPU's last read observed
    cpu_online_mask,  \* the online CPUs
    task_nice,        \* the nice value of every live process
    snapshot,         \* history: the (average, maximum) last computed by a cycle
    perCoreLoad,      \* history: the loads this cycle has accumulated, by CPU
    sampled,          \* history: the CPUs get_cpu_load was ever called for
    hotplugged,       \* history: the online mask changed during this cycle
    cancel_met,       \* history: what cancel_delayed_work_sync found
    oops,             \* history: get_cpu_load raised a divide error
    mapped,           \* boost_to_nice called on its own: its argument and result
    lapsed,           \* history: the CPUs that went offline since their last sample
    probed,           \* get_cpu_load called on its own: its argument and result
    published         \* history: 0 nothing stored yet, 1 the first current_load, 2 the first max_load too

modvars == <<boost_level, current_load, max_load, target_pid, prev_idle, prev_total>>

lifevars == <<adaptive_kobj, sysfs_group, mpc, init_ret>>

workvars == <<work_pending, work_canceling, wpc, w>>

envvars == <<kcpustat, cpu_online_mask, task_nice>>

histvars ==
    <<snapshot, perCoreLoad, sampled, hotplugged, cancel_met, oops, mapped,
      lapsed, probed, published>>

vars == <<modvars, lifevars, workvars, caller, envvars, histvars>>

\* The locals of load_work_func at its entry (cpu: none visited yet).
WorkLocals == [cpu |-> -1, load |-> 0, sum |-> 0, cnt |-> 0, local_max |-> 0]

\* A caller outside every handler.
CallerIdle ==
    [pc |-> "idle", op |-> "none", buf |-> <<>>, task |-> 0, new_nice |-> 0,
     out |-> <<>>, ret |-> 0, diag |-> "none"]

\* get_cpu_load not called on its own.
NotProbed == [cpu |-> -1, ret |-> 0]

\* boost_to_nice not called on its own.
NotMapped == [level |-> 0, called |-> FALSE, nice |-> 0]

EmptyLoads == [c \in {} |-> [raw |-> 0, load |-> 0]]

Init ==
    /\ boost_level = 0
    /\ current_load = 0
    /\ max_load = 0
    /\ target_pid = 0
    /\ prev_idle = [c \in CPUs |-> U64Zero]
    /\ prev_total = [c \in CPUs |-> U64Zero]
    /\ adaptive_kobj = FALSE
    /\ sysfs_group = FALSE
    /\ work_pending = FALSE
    /\ work_canceling = FALSE
    /\ mpc = "unloaded"
    /\ init_ret = 1
    /\ wpc = "idle"
    /\ w = WorkLocals
    /\ caller = [c \in Callers |-> CallerIdle]
    /\ kcpustat = [c \in CPUs |-> StatZero]
    /\ cpu_online_mask = CPUs
    /\ task_nice = [p \in LivePids |-> 0]
    /\ snapshot = <<0, 0>>
    /\ perCoreLoad = EmptyLoads
    /\ sampled = {}
    /\ hotplugged = FALSE
    /\ cancel_met = "none"
    /\ oops = FALSE
    /\ mapped = NotMapped
    /\ lapsed = {}
    /\ probed = NotProbed
    /\ published = 0

(***************************************************************************)
(* Module init and exit.                                                   *)
(***************************************************************************)
\* adaptive_sched_init, lines 346-350: kobject_create_and_add.
adaptive_sched_init_kobj ==
    /\ mpc = "unloaded"
    /\ \/ /\ adaptive_kobj' = TRUE
          /\ mpc' = "init_group"
          /\ UNCHANGED init_ret
       \/ /\ mpc' = "failed"
          /\ init_ret' = -12
          /\ UNCHANGED adaptive_kobj
    /\ UNCHANGED <<modvars, sysfs_group, workvars, caller, envvars, histvars>>

\* adaptive_sched_init returning the error of sysfs_create_group without
\* kobject_put.
adaptive_sched_init_group_leak ==
    /\ mpc = "init_group"
    /\ \/ /\ sysfs_group' = TRUE
          /\ mpc' = "init_work"
          /\ UNCHANGED <<adaptive_kobj, init_ret>>
       \/ /\ mpc' = "failed"
          /\ init_ret' \in {-12, -17}
          /\ UNCHANGED <<adaptive_kobj, sysfs_group>>
    /\ UNCHANGED <<modvars, workvars, caller, envvars, histvars>>

\* adaptive_sched_init, lines 352-357: sysfs_create_group, which succeeds
\* or returns an error (-ENOMEM, -EEXIST) that init hands on after
\* kobject_put.
adaptive_sched_init_group ==
    /\ mpc = "init_group"
    /\ \/ /\ sysfs_group' = TRUE
          /\ mpc' = "init_work"
          /\ UNCHANGED <<adaptive_kobj, init_ret>>
       \/ /\ adaptive_kobj' = FALSE
          /\ mpc' = "failed"
          /\ init_ret' \in {-12, -17}
          /\ UNCHANGED sysfs_group
    /\ UNCHANGED <<modvars, workvars, caller, envvars, histvars>>

\* adaptive_sched_init, lines 359-363: INIT_DELAYED_WORK, first arming.
adaptive_sched_init_work ==
    /\ mpc = "init_work"
    /\ work_pending' = schedule_delayed_work(work_pending, work_canceling)
    /\ mpc' = "live"
    /\ init_ret' = 0
    /\ UNCHANGED <<modvars, adaptive_kobj, sysfs_group, work_canceling, wpc, w,
                   caller, envvars, histvars>>

\* adaptive_sched_exit calling cancel_delayed_work instead: the pending
\* timer is deleted, a running load_work_func may still re-arm.
adaptive_sched_exit_cancel_nosync ==
    /\ mpc = "live"
    /\ work_pending' = FALSE
    /\ mpc' = "exit_sync"
    /\ cancel_met' = IF wpc # "idle" THEN "running"
                     ELSE IF work_pending THEN "scheduled" ELSE "stopped"
    /\ UNCHANGED <<modvars, adaptive_kobj, sysfs_group, init_ret, work_canceling,
                   wpc, w, caller, envvars, snapshot, perCoreLoad, sampled,
                   hotplugged, oops, mapped, lapsed, probed,
                   published>>

\* adaptive_sched_exit, line 370: cancel_delayed_work_sync takes the work
\* (a pending timer is deleted, re-arming is refused from now on) ...
adaptive_sched_exit_cancel ==
    /\ mpc = "live"
    /\ work_pending' = FALSE
    /\ work_canceling' = TRUE
    /\ mpc' = "exit_sync"
    /\ cancel_met' = IF wpc # "idle" THEN "running"
                     ELSE IF work_pending THEN "scheduled" ELSE "stopped"
    /\ UNCHANGED <<modvars, adaptive_kobj, sysfs_group, init_ret, wpc, w,
                   caller, envvars, snapshot, perCoreLoad, sampled, hotplugged,
                   oops, mapped, lapsed, probed,
                   published>>

\* cancel_delayed_work_sync returning without waiting for the execution
\* in flight.
adaptive_sched_exit_sync_nowait ==
    /\ mpc = "exit_sync"
    /\ work_canceling' = FALSE
    /\ mpc' = "exit_sysfs"
    /\ UNCHANGED <<modvars, adaptive_kobj, sysfs_group, init_ret, work_pending,
                   wpc, w, caller, envvars, histvars>>

\* ... and returns once no execution of load_work_func is in flight.
adaptive_sched_exit_sync ==
    /\ mpc = "exit_sync"
    /\ wpc = "idle"
    /\ work_canceling' = FALSE
    /\ mpc' = "exit_sysfs"
    /\ UNCHANGED <<modvars, adaptive_kobj, sysfs_group, init_ret, work_pending,
                   wpc, w, caller, envvars, histvars>>

\* adaptive_sched_exit removing the group and the kobject before it cancels
\* the work.
adaptive_sched_exit_sysfs_first ==
    /\ mpc \in {"live", "exit_sysfs"}
    /\ \A c \in Callers : caller[c].pc \in {"idle", "ret"}
    /\ sysfs_group' = FALSE
    /\ adaptive_kobj' = FALSE
    /\ mpc' = "removed"
    /\ UNCHANGED <<modvars, init_ret, workvars, caller, envvars, histvars>>

\* adaptive_sched_exit, lines 372-375: sysfs_remove_group (which waits for
\* the handlers in flight) and kobject_put.
adaptive_sched_exit_sysfs ==
    /\ mpc = "exit_sysfs"
    /\ \A c \in Callers : caller[c].pc \in {"idle", "ret"}
    /\ sysfs_group' = FALSE
    /\ adaptive_kobj' = FALSE
    /\ mpc' = "removed"
    /\ UNCHANGED <<modvars, init_ret, workvars, caller, envvars, histvars>>

(***************************************************************************)
(* The periodic work.                                                      *)
(***************************************************************************)
\* load_work_func starting with its timer still armed.
delayed_work_fire_armed ==
    /\ work_pending
    /\ wpc = "idle"
    /\ wpc' = "loop"
    /\ w' = WorkLocals
    /\ perCoreLoad' = EmptyLoads
    /\ hotplugged' = FALSE
    /\ UNCHANGED <<modvars, lifevars, work_pending, work_canceling, caller,
                   envvars, snapshot, sampled, cancel_met, oops, mapped, lapsed,
                   probed,
                   published>>

\* The timer of load_work expires and a worker starts load_work_func
\* (lines 299-304).  A work item never runs twice at once.
delayed_work_fire ==
    /\ work_pending
    /\ wpc = "idle"
    /\ work_pending' = FALSE
    /\ wpc' = "loop"
    /\ w' = WorkLocals
    /\ perCoreLoad' = EmptyLoads
    /\ hotplugged' = FALSE
    /\ UNCHANGED <<modvars, lifevars, work_canceling, caller, envvars,
                   snapshot, sampled, cancel_met, oops, mapped, lapsed, probed,
                   published>>

\* load_work_func, lines 306-307: the loop head picks the next online CPU
\* and calls get_cpu_load for it, or leaves the loop.
load_work_sample(Stats) ==
    /\ wpc = "loop"
    /\ LET cpu == cpumask_next(w.cpu, cpu_online_mask)
       IN  IF cpu < NR_CPUS
           THEN \E st \in Stats :
                  LET r == get_cpu_load(cpu, st, prev_total, prev_idle)
                  IN  /\ kcpustat' = [kcpustat EXCEPT ![cpu] = st]
                      /\ prev_total' = r.prev_total
                      /\ prev_idle' = r.prev_idle
                      /\ w' = [w EXCEPT !.cpu = cpu, !.load = r.ret]
                      /\ sampled' = sampled \cup {cpu}
                      /\ lapsed' = lapsed \ {cpu}
                      /\ oops' = (oops \/ r.fault)
                      /\ wpc' = "accum"
           ELSE /\ wpc' = "store_avg"
                /\ UNCHANGED <<kcpustat, prev_total, prev_idle, w, sampled,
                               lapsed, oops>>
    /\ UNCHANGED <<boost_level, current_load, max_load, target_pid, lifevars,
                   work_pending, work_canceling, caller, cpu_online_mask,
                   task_nice, snapshot, perCoreLoad, hotplugged, cancel_met,
                   mapped, probed,
                   published>>

\* load_work_func, lines 309-318: clamp the load, add it to the sum, count
\* it, keep the maximum.
load_work_accum ==
    /\ wpc = "accum"
    /\ LET load == clamp_load(w.load)
       IN  /\ w' = [w EXCEPT !.load = load,
                             !.sum = w.sum + load,
                             !.cnt = w.cnt + 1,
                             !.local_max = IF load > w.local_max THEN load
                                           ELSE w.local_max]
           /\ perCoreLoad' = [c \in DOMAIN perCoreLoad \cup {w.cpu} |->
                                IF c = w.cpu THEN [raw |-> w.load, load |-> load]
                                ELSE perCoreLoad[c]]
    /\ wpc' = "loop"
    /\ UNCHANGED <<modvars, lifevars, work_pending, work_canceling, caller,
                   envvars, snapshot, sampled, hotplugged, cancel_met, oops, mapped, lapsed, probed,
                   published>>

\* load_average dividing by the table size instead of the CPUs counted.
load_average_nrcpus(sum, cnt) == sum \div NR_CPUS

\* The average load_work_func stores, lines 321-324.
load_average(sum, cnt) == IF cnt > 0 THEN sum \div cnt ELSE 0

\* load_work_func, lines 321-324: store current_load.
load_work_store_avg ==
    /\ wpc = "store_avg"
    /\ current_load' = load_average(w.sum, w.cnt)
    /\ snapshot' = <<load_average(w.sum, w.cnt), w.local_max>>
    /\ wpc' = "store_max"
    /\ published' = IF published = 0 THEN 1 ELSE published
    /\ UNCHANGED <<boost_level, max_load, target_pid, prev_idle, prev_total,
                   lifevars, work_pending, work_canceling, w, caller, envvars,
                   perCoreLoad, sampled, hotplugged, cancel_met, oops, mapped, lapsed, probed>>

\* load_work_store_max that also raises boost_level when a CPU was busy.
load_work_store_max_adapt ==
    /\ wpc = "store_max"
    /\ max_load' = w.local_max
    /\ boost_level' = IF w.local_max > 0 THEN 3 ELSE boost_level
    /\ published' = IF published = 1 THEN 2 ELSE published
    /\ wpc' = "rearm"
    /\ UNCHANGED <<current_load, target_pid, prev_idle, prev_total,
                   lifevars, work_pending, work_canceling, w, caller, envvars,
                   snapshot, perCoreLoad, sampled, hotplugged, cancel_met, oops,
                   mapped, lapsed, probed>>

\* load_work_func, line 326: store max_load.
load_work_store_max ==
    /\ wpc = "store_max"
    /\ max_load' = w.local_max
    /\ published' = IF published = 1 THEN 2 ELSE published
    /\ wpc' = "rearm"
    /\ UNCHANGED <<boost_level, current_load, target_pid, prev_idle, prev_total,
                   lifevars, work_pending, work_canceling, w, caller, envvars,
                   snapshot, perCoreLoad, sampled, hotplugged, cancel_met, oops,
                   mapped, lapsed, probed>>

\* load_work_func returning without schedule_delayed_work.
load_work_rearm_norearm ==
    /\ wpc = "rearm"
    /\ wpc' = "idle"
    /\ w' = WorkLocals
    /\ perCoreLoad' = EmptyLoads
    /\ hotplugged' = FALSE
    /\ UNCHANGED <<modvars, lifevars, work_pending, work_canceling, caller,
                   envvars, snapshot, sampled, cancel_met, oops, mapped, lapsed, probed,
                   published>>

\* load_work_func, lines 331-332: re-arm the timer and return.
load_work_rearm ==
    /\ wpc = "rearm"
    /\ work_pending' = schedule_delayed_work(work_pending, work_canceling)
    /\ wpc' = "idle"
    /\ w' = WorkLocals
    /\ perCoreLoad' = EmptyLoads
    /\ hotplugged' = FALSE
    /\ UNCHANGED <<modvars, lifevars, work_canceling, caller, envvars,
                   snapshot, sampled, cancel_met, oops, mapped, lapsed, probed,
                   published>>

\* CPU hotplug: a CPU goes offline (never the last one) or comes online.
cpu_hotplug ==
    /\ mpc = "live"
    /\ \E c \in CPUs :
         \/ /\ c \in cpu_online_mask
            /\ cpu_online_mask # {c}
            /\ cpu_online_mask' = cpu_online_mask \ {c}
            /\ lapsed' = lapsed \cup {c}
         \/ /\ c \notin cpu_online_mask
            /\ cpu_online_mask' = cpu_online_mask \cup {c}
            /\ UNCHANGED lapsed
    /\ hotplugged' = (hotplugged \/ wpc # "idle")
    /\ UNCHANGED <<modvars, lifevars, workvars, caller, kcpustat, task_nice,
                   snapshot, perCoreLoad, sampled, cancel_met, oops, mapped, probed,
                   published>>

(***************************************************************************)
(* The sysfs attributes.  A handler runs for one caller at a time; callers *)
(* run concurrently with each other and with the periodic work.            *)
(***************************************************************************)
CanEnter(c) == sysfs_group /\ caller[c].pc = "idle"

\* A show handler returning the text of n.
Shown(c, name, n) ==
    caller' = [caller EXCEPT ![c] =
                 [CallerIdle EXCEPT !.pc = "ret", !.op = name,
                                    !.out = scnprintf(n),
                                    !.ret = Len(scnprintf(n))]]

\* boost_show, lines 166-171.
boost_show(c) ==
    /\ CanEnter(c)
    /\ Shown(c, "boost_show", boost_level)
    /\ UNCHANGED <<modvars, lifevars, workvars, envvars, histvars>>

\* load_show, lines 204-209.
load_show(c) ==
    /\ CanEnter(c)
    /\ Shown(c, "load_show", current_load)
    /\ UNCHANGED <<modvars, lifevars, workvars, envvars, histvars>>

\* max_load_show, lines 220-225.
max_load_show(c) ==
    /\ CanEnter(c)
    /\ Shown(c, "max_load_show", max_load)
    /\ UNCHANGED <<modvars, lifevars, workvars, envvars, histvars>>

\* target_pid_show, lines 236-241.
target_pid_show(c) ==
    /\ CanEnter(c)
    /\ Shown(c, "target_pid_show", target_pid)
    /\ UNCHANGED <<modvars, lifevars, workvars, envvars, histvars>>

\* boost_store leaving out apply_boost_to_target when the level stays as it
\* was.
boost_store_skip_same(c, buf) ==
    /\ CanEnter(c)
    /\ LET r == kstrtoint(buf)
       IN  /\ boost_level' = IF r.rc = 0 THEN boost_clamp(r.val) ELSE boost_level
           /\ caller' = [caller EXCEPT ![c] =
                [CallerIdle EXCEPT !.pc = IF r.rc = 0 /\ boost_clamp(r.val) # boost_level
                                          THEN "apply_133" ELSE "ret",
                                   !.op = "boost_store", !.buf = buf,
                                   !.ret = Len(buf),
                                   !.diag = IF r.rc = 0 THEN "set" ELSE "invalid"]]
    /\ UNCHANGED <<current_load, max_load, target_pid, prev_idle, prev_total,
                   lifevars, workvars, envvars, histvars>>

\* boost_store storing 0 for a text kstrtoint rejects.
boost_store_invalid_zero(c, buf) ==
    /\ CanEnter(c)
    /\ LET r == kstrtoint(buf)
       IN  /\ boost_level' = IF r.rc = 0 THEN boost_clamp(r.val) ELSE 0
           /\ caller' = [caller EXCEPT ![c] =
                [CallerIdle EXCEPT !.pc = IF r.rc = 0 THEN "apply_133" ELSE "ret",
                                   !.op = "boost_store", !.buf = buf,
                                   !.ret = Len(buf),
                                   !.diag = IF r.rc = 0 THEN "set" ELSE "invalid"]]
    /\ UNCHANGED <<current_load, max_load, target_pid, prev_idle, prev_total,
                   lifevars, workvars, envvars, histvars>>

\* boost_store, lines 173-185 and 188-192: parse, clamp and store, or
\* report the invalid value; the call returns count either way.
boost_store(c, buf) ==
    /\ CanEnter(c)
    /\ LET r == kstrtoint(buf)
       IN  IF r.rc = 0
           THEN /\ boost_level' = boost_clamp(r.val)
                /\ caller' = [caller EXCEPT ![c] =
                     [CallerIdle EXCEPT !.pc = "apply_133", !.op = "boost_store",
                                        !.buf = buf, !.ret = Len(buf), !.diag = "set"]]
           ELSE /\ caller' = [caller EXCEPT ![c] =
                     [CallerIdle EXCEPT !.pc = "ret", !.op = "boost_store",
                                        !.buf = buf, !.ret = Len(buf), !.diag = "invalid"]]
                /\ UNCHANGED boost_level
    /\ UNCHANGED <<current_load, max_load, target_pid, prev_idle, prev_total,
                   lifevars, workvars, envvars, histvars>>

\* target_pid_store giving the former target its nice value 0 back.
target_pid_store_restore(c, buf) ==
    /\ CanEnter(c)
    /\ LET r == kstrtoint(buf)
       IN  /\ target_pid' = IF r.rc = 0 THEN pid_clamp(r.val) ELSE target_pid
           /\ task_nice' = IF r.rc = 0 /\ target_pid \in LivePids
                                        /\ pid_clamp(r.val) # target_pid
                           THEN [task_nice EXCEPT ![target_pid] = 0]
                           ELSE task_nice
           /\ caller' = [caller EXCEPT ![c] =
                [CallerIdle EXCEPT !.pc = IF r.rc = 0 THEN "store_256" ELSE "ret",
                                   !.op = "target_pid_store", !.buf = buf,
                                   !.ret = Len(buf),
                                   !.diag = IF r.rc = 0 THEN "set" ELSE "invalid"]]
    /\ UNCHANGED <<boost_level, current_load, max_load, prev_idle, prev_total,
                   lifevars, workvars, kcpustat, cpu_online_mask, histvars>>

\* target_pid_store that also clears boost_level when it stores a pid.
target_pid_store_reset(c, buf) ==
    /\ CanEnter(c)
    /\ LET r == kstrtoint(buf)
       IN  /\ target_pid' = IF r.rc = 0 THEN pid_clamp(r.val) ELSE target_pid
           /\ boost_level' = IF r.rc = 0 THEN 0 ELSE boost_level
           /\ caller' = [caller EXCEPT ![c] =
                [CallerIdle EXCEPT !.pc = IF r.rc = 0 THEN "store_256" ELSE "ret",
                                   !.op = "target_pid_store", !.buf = buf,
                                   !.ret = Len(buf),
                                   !.diag = IF r.rc = 0 THEN "set" ELSE "invalid"]]
    /\ UNCHANGED <<current_load, max_load, prev_idle, prev_total,
                   lifevars, workvars, envvars, histvars>>

\* target_pid_store, lines 243-254 and 259-263: parse, clamp and store, or
\* report the invalid value.
target_pid_store(c, buf) ==
    /\ CanEnter(c)
    /\ LET r == kstrtoint(buf)
       IN  IF r.rc = 0
           THEN /\ target_pid' = pid_clamp(r.val)
                /\ caller' = [caller EXCEPT ![c] =
                     [CallerIdle EXCEPT !.pc = "store_256", !.op = "target_pid_store",
                                        !.buf = buf, !.ret = Len(buf), !.diag = "set"]]
           ELSE /\ caller' = [caller EXCEPT ![c] =
                     [CallerIdle EXCEPT !.pc = "ret", !.op = "target_pid_store",
                                        !.buf = buf, !.ret = Len(buf), !.diag = "invalid"]]
                /\ UNCHANGED target_pid
    /\ UNCHANGED <<boost_level, current_load, max_load, prev_idle, prev_total,
                   lifevars, workvars, envvars, histvars>>

\* target_pid_store, lines 256-257: the stored target_pid is read again.
target_pid_store_256(c) ==
    /\ caller[c].pc = "store_256"
    /\ caller' = [caller EXCEPT ![c].pc =
                    IF target_pid > 0 THEN "apply_133" ELSE "ret"]
    /\ UNCHANGED <<modvars, lifevars, workvars, envvars, histvars>>

\* apply_boost_to_target without the test of lines 133-136.
apply_boost_133_nocheck(c) ==
    /\ caller[c].pc = "apply_133"
    /\ caller' = [caller EXCEPT ![c].pc = "apply_138"]
    /\ UNCHANGED <<modvars, lifevars, workvars, envvars, histvars>>

\* apply_boost_to_target, lines 133-136: no target set.
apply_boost_133(c) ==
    /\ caller[c].pc = "apply_133"
    /\ caller' = [caller EXCEPT ![c] =
                    IF target_pid <= 0
                    THEN [@ EXCEPT !.pc = "ret", !.diag = "no target_pid set"]
                    ELSE [@ EXCEPT !.pc = "apply_138"]]
    /\ UNCHANGED <<modvars, lifevars, workvars, envvars, histvars>>

\* apply_boost_to_target, lines 138-150: find_vpid and pid_task.
apply_boost_138(c) ==
    /\ caller[c].pc = "apply_138"
    /\ caller' = [caller EXCEPT ![c] =
                    IF target_pid \in DOMAIN task_nice
                    THEN [@ EXCEPT !.pc = "apply_152", !.task = target_pid]
                    ELSE [@ EXCEPT !.pc = "ret", !.diag = "not found"]]
    /\ UNCHANGED <<modvars, lifevars, workvars, envvars, histvars>>

\* apply_boost_to_target, lines 152-155: map the boost level.
apply_boost_152(c) ==
    /\ caller[c].pc = "apply_152"
    /\ caller' = [caller EXCEPT ![c] =
                    [@ EXCEPT !.pc = "apply_157",
                              !.new_nice = boost_to_nice(boost_level),
                              !.diag = "applying"]]
    /\ UNCHANGED <<modvars, lifevars, workvars, envvars, histvars>>

\* apply_boost_to_target adding new_nice to the task's nice value, as
\* nice(2) does, where set_user_nice sets it.
apply_boost_157_relative(c) ==
    /\ caller[c].pc = "apply_157"
    /\ task_nice' = [task_nice EXCEPT ![caller[c].task] = @ + caller[c].new_nice]
    /\ caller' = [caller EXCEPT ![c].pc = "ret"]
    /\ UNCHANGED <<modvars, lifevars, workvars, kcpustat, cpu_online_mask,
                   histvars>>

\* apply_boost_to_target, line 157: set_user_nice.
apply_boost_157(c) ==
    /\ caller[c].pc = "apply_157"
    /\ task_nice' = [task_nice EXCEPT ![caller[c].task] = caller[c].new_nice]
    /\ caller' = [caller EXCEPT ![c].pc = "ret"]
    /\ UNCHANGED <<modvars, lifevars, workvars, kcpustat, cpu_online_mask,
                   histvars>>

\* The handler has returned; the caller leaves the attribute.
sysfs_return(c) ==
    /\ caller[c].pc = "ret"
    /\ caller' = [caller EXCEPT ![c] = CallerIdle]
    /\ UNCHANGED <<modvars, lifevars, workvars, envvars, histvars>>

(***************************************************************************)
(* Specifications.                                                         *)
(***************************************************************************)
Lifecycle ==
    \/ adaptive_sched_init_kobj
    \/ adaptive_sched_init_group
    \/ adaptive_sched_init_work
    \/ adaptive_sched_exit_cancel
    \/ adaptive_sched_exit_sync
    \/ adaptive_sched_exit_sysfs

Work(Stats) ==
    \/ delayed_work_fire
    \/ load_work_sample(Stats)
    \/ load_work_accum
    \/ load_work_store_avg
    \/ load_work_store_max
    \/ load_work_rearm

\* Reads of the two load attributes.
LoadReads(Who) ==
    \E c \in Who :
        \/ load_show(c)
        \/ max_load_show(c)
        \/ sysfs_return(c)

\* Every attribute operation.
Attr(Who, Texts) ==
    \E c \in Who :
        \/ boost_show(c)
        \/ load_show(c)
        \/ max_load_show(c)
        \/ target_pid_show(c)
        \/ \E buf \in Texts : boost_store(c, buf)
        \/ \E buf \in Texts : target_pid_store(c, buf)
        \/ target_pid_store_256(c)
        \/ apply_boost_133(c)
        \/ apply_boost_138(c)
        \/ apply_boost_152(c)
        \/ apply_boost_157(c)
        \/ sysfs_return(c)

\* The counters seen by the specifications that run the whole module.
CpuStatsFew ==
    { StatUI(U64(100), U64(800)),
      StatUI(U64(150), U64(800)),
      Stat(U64(100), U64(10), U64(30), U64(800), U64(45), U64(5), U64(5), U64(5)) }

\* The module from insmod to rmmod: the periodic work, CPU hotplug and a
\* reader of the load attributes.
Next ==
    \/ Lifecycle
    \/ Work(CpuStatsFew)
    \/ cpu_hotplug
    \/ LoadReads({1})

Spec == Init /\ [][Next]_vars

\* The module from insmod to rmmod with its periodic work alone.
FairNext ==
    \/ Lifecycle
    \/ Work(CpuStatsFew)

\* The workqueue runs a queued work item to its end and the timer of a
\* pending delayed work expires: the steps of the periodic work are taken
\* whenever they stay possible.
FairSpec == Init /\ [][FairNext]_vars /\ WF_vars(Work(CpuStatsFew))

\* rmmod runs on: the process in adaptive_sched_exit is scheduled, so
\* cancel_delayed_work_sync returns once it can and the teardown follows.
ExitFairSpec ==
    /\ FairSpec
    /\ WF_vars(adaptive_sched_exit_sync)
    /\ WF_vars(adaptive_sched_exit_sysfs)

\* The state a successful adaptive_sched_init leaves.
InitLive ==
    /\ boost_level = 0
    /\ current_load = 0
    /\ max_load = 0
    /\ target_pid = 0
    /\ prev_idle = [c \in CPUs |-> U64Zero]
    /\ prev_total = [c \in CPUs |-> U64Zero]
    /\ adaptive_kobj = TRUE
    /\ sysfs_group = TRUE
    /\ work_pending = TRUE
    /\ work_canceling = FALSE
    /\ mpc = "live"
    /\ init_ret = 0
    /\ wpc = "idle"
    /\ w = WorkLocals
    /\ caller = [c \in Callers |-> CallerIdle]
    /\ kcpustat = [c \in CPUs |-> StatZero]
    /\ cpu_online_mask = CPUs
    /\ task_nice = [p \in LivePids |-> 0]
    /\ snapshot = <<0, 0>>
    /\ perCoreLoad = EmptyLoads
    /\ sampled = {}
    /\ hotplugged = FALSE
    /\ cancel_met = "none"
    /\ oops = FALSE
    /\ mapped = NotMapped
    /\ lapsed = {}
    /\ probed = NotProbed
    /\ published = 0

\* The sampler over every counter input: the periodic work of a loaded
\* module.
SamplerNext == Work(CpuStats)

SamplerSpec == InitLive /\ [][SamplerNext]_vars

\* The attribute handlers of a loaded module under concurrent callers,
\* within one period of the timer.
RaceNext == Attr(Callers, RaceTexts)

RaceSpec == InitLive /\ [][RaceNext]_vars

\* The attribute handlers of a loaded module over every text, within one
\* period of the timer.
WriteNext == Attr(Callers, WriteTexts)

WriteSpec == InitLive /\ [][WriteNext]_vars

\* boost_to_nice as a function of any int: the module not loaded, the
\* argument drawn from Levels.
Levels == (0 - MaxLevel) .. MaxLevel

MapInit ==
    /\ boost_level = 0
    /\ current_load = 0
    /\ max_load = 0
    /\ target_pid = 0
    /\ prev_idle = [c \in CPUs |-> U64Zero]
    /\ prev_total = [c \in CPUs |-> U64Zero]
    /\ adaptive_kobj = FALSE
    /\ sysfs_group = FALSE
    /\ work_pending = FALSE
    /\ work_canceling = FALSE
    /\ mpc = "unloaded"
    /\ init_ret = 1
    /\ wpc = "idle"
    /\ w = WorkLocals
    /\ caller = [c \in Callers |-> CallerIdle]
    /\ kcpustat = [c \in CPUs |-> StatZero]
    /\ cpu_online_mask = CPUs
    /\ task_nice = [p \in LivePids |-> 0]
    /\ snapshot = <<0, 0>>
    /\ perCoreLoad = EmptyLoads
    /\ sampled = {}
    /\ hotplugged = FALSE
    /\ cancel_met = "none"
    /\ oops = FALSE
    /\ mapped \in {[NotMapped EXCEPT !.level = l] : l \in Levels}
    /\ lapsed = {}
    /\ probed = NotProbed
    /\ published = 0

\* boost_to_nice(level), lines 57-67, called on its own.
boost_to_nice_call ==
    /\ ~mapped.called
    /\ mapped' = [mapped EXCEPT !.called = TRUE, !.nice = boost_to_nice(mapped.level)]
    /\ UNCHANGED <<modvars, lifevars, workvars, caller, envvars, snapshot,
                   perCoreLoad, sampled, hotplugged, cancel_met, oops,
                   lapsed, probed,
                   published>>

MapNext == boost_to_nice_call

MapSpec == MapInit /\ [][MapNext]_vars

\* get_cpu_load(cpu), lines 77-118, called on its own for an identifier at
\* or past the capacity of the baseline tables.
ProbeIds == NR_CPUS .. (NR_CPUS + 1)

get_cpu_load_call(Stats) ==
    /\ \E cpu \in ProbeIds : \E st \in Stats :
         LET r == get_cpu_load(cpu, st, prev_total, prev_idle)
         IN  /\ prev_total' = r.prev_total
             /\ prev_idle' = r.prev_idle
             /\ oops' = (oops \/ r.fault)
             /\ probed' = [cpu |-> cpu, ret |-> r.ret]
    /\ UNCHANGED <<boost_level, current_load, max_load, target_pid, lifevars,
                   workvars, caller, envvars, snapshot, perCoreLoad, sampled,
                   hotplugged, cancel_met, mapped, lapsed, published>>

\* The sampler under CPU hotplug, beside calls of get_cpu_load for
\* identifiers no CPU has.
ProbeNext ==
    \/ Work(CpuStatsFew)
    \/ cpu_hotplug
    \/ get_cpu_load_call(CpuStatsFew)

ProbeSpec == InitLive /\ [][ProbeNext]_vars

\* Reads of every attribute.
Reads(Who) ==
    \E c \in Who :
        \/ boost_show(c)
        \/ load_show(c)
        \/ max_load_show(c)
        \/ target_pid_show(c)
        \/ sysfs_return(c)

\* One writer at a time (caller 1, over every text) beside a concurrent
\* reader (caller 2).
OneWriterNext ==
    \/ Attr({1}, WriteTexts)
    \/ Reads({2})

OneWriterSpec == InitLive /\ [][OneWriterNext]_vars

\* The texts and the counters of the writer that runs beside the periodic
\* work.
CycleTexts == { <<"0">>, <<"1", "\n">>, <<"2">>, <<"a">> }

CpuStatsTwo == { StatUI(U64(100), U64(800)), StatUI(U64(150), U64(800)) }

\* The periodic work of a loaded module beside a writer of the attributes.
CycleWriteNext ==
    \/ Work(CpuStatsTwo)
    \/ Attr({1}, CycleTexts)

CycleWriteSpec == InitLive /\ [][CycleWriteNext]_vars

(***************************************************************************)
(* Properties.                                                             *)
(***************************************************************************)
Clamp(v, lo, hi) == IF v < lo THEN lo ELSE IF v > hi THEN hi ELSE v

\* The step in which load_work_func calls get_cpu_load for CPU c.
SampleStep(c) == wpc = "loop" /\ wpc' = "accum" /\ w'.cpu = c

\* The counters are the baseline of c.
BaselineIs(pt, pi, c, st) == pt[c] = StatTotal(st) /\ pi[c] = StatIdleAll(st)

RECURSIVE SumOver(_, _)
SumOver(f, S) ==
    IF S = {} THEN 0
    ELSE LET c == CHOOSE x \in S : TRUE IN f[c].load + SumOver(f, S \ {c})

MaxOver(f, S) ==
    IF S = {} THEN 0 ELSE CHOOSE m \in {f[c].load : c \in S} : \A c \in S : f[c].load <= m

\* C1: every parseable value v written to boost_level leaves boost_level =
\* clamp(v, 0, 3); boost_level is in 0..3 in every state, and so is every
\* value a boost_level read returns, also while a write is in flight.
C1_BoostLevelClamped ==
    /\ [](/\ boost_level \in 0..3
          /\ \A c \in Callers :
                caller[c].op = "boost_show" =>
                    caller[c].out \in {scnprintf(n) : n \in 0..3})
    /\ [][\A c \in Callers :
            (/\ caller[c].pc = "idle"
             /\ caller'[c].op = "boost_store"
             /\ kstrtoint(caller'[c].buf).rc = 0)
            => boost_level' = Clamp(kstrtoint(caller'[c].buf).val, 0, 3)]_vars

\* An out-of-range write has stored 3 and a concurrent read has returned it.
C1_Witness ==
    \E c, d \in Callers :
        /\ c # d
        /\ caller[c].op = "boost_store"
        /\ caller[c].buf = <<"7">>
        /\ caller[c].pc = "apply_133"
        /\ boost_level = 3
        /\ caller[d].op = "boost_show"
        /\ caller[d].out = <<"3", "\n">>

\* C2: the first sample of a CPU (no baseline stored: never sampled, or
\* prev_total 0) returns 0 and stores the observed total and idle_all as
\* the baseline, whatever the counters are.
C2_FirstSampleZero ==
    [][\A c \in CPUs :
         (SampleStep(c) /\ (c \notin sampled \/ prev_total[c] = U64Zero))
         => /\ w'.load = 0
            /\ BaselineIs(prev_total', prev_idle', c, kcpustat'[c])]_vars

\* CPU 0 was sampled for the first time with a total of 2^64 - 10.
C2_Witness ==
    /\ wpc = "accum"
    /\ w.cpu = 0
    /\ w.load = 0
    /\ sampled = {0}
    /\ snapshot = <<0, 0>>
    /\ kcpustat[0] = StatUI(U64Sub(U64Zero, U64(50)), U64(40))
    /\ prev_total[0] = U64Sub(U64Zero, U64(10))
    /\ prev_idle[0] = U64(40)

\* C3: current_load and max_load are in 0..100 in every state, so after
\* every completed cycle, whatever the counters and the online CPUs.
C3_LoadsInRange == current_load \in 0..100 /\ max_load \in 0..100

\* A cycle has published after get_cpu_load returned a value above 100.
C3_Witness ==
    /\ wpc = "rearm"
    /\ \E c \in DOMAIN perCoreLoad : perCoreLoad[c].raw > 100
    /\ max_load = 100

\* C6: a sample that finds the total equal to the baseline total
\* (diff_total = 0) returns 0 and no division by zero takes place.
C6_NoElapsedTimeZero ==
    /\ []~oops
    /\ [][\A c \in CPUs :
            (/\ SampleStep(c)
             /\ prev_total[c] # U64Zero
             /\ StatTotal(kcpustat'[c]) = prev_total[c])
            => w'.load = 0 /\ ~oops']_vars

\* CPU 0 was sampled twice with the same counters: a second cycle, its
\* baseline unchanged by the sample.
C6_Witness ==
    /\ wpc = "accum"
    /\ w.cpu = 0
    /\ w.load = 0
    /\ snapshot = <<0, 0>>
    /\ current_load = 0
    /\ kcpustat[0] = StatUI(U64(100), U64(800))
    /\ prev_total[0] = U64(900)
    /\ \E c \in CPUs : c # 0 /\ c \in sampled

\* C7: a cycle publishes current_load = floor(sum / count) and max_load =
\* the maximum of the loads it sampled, one per CPU it found online (both 0
\* when it found none); without hotplug during the cycle those are the
\* online CPUs.
C7_AverageAndMax ==
    wpc = "rearm" =>
        LET S == DOMAIN perCoreLoad
        IN  /\ S \subseteq CPUs
            /\ (~hotplugged => S = cpu_online_mask)
            /\ current_load = (IF S = {} THEN 0
                               ELSE SumOver(perCoreLoad, S) \div Cardinality(S))
            /\ max_load = MaxOver(perCoreLoad, S)

\* A cycle has published an average that is rounded down and differs from
\* the maximum.
C7_Witness ==
    /\ wpc = "rearm"
    /\ Cardinality(DOMAIN perCoreLoad) = 2
    /\ SumOver(perCoreLoad, DOMAIN perCoreLoad) % 2 = 1
    /\ current_load < max_load
    /\ current_load > 0

\* floor((dt - di) * 100 / dt) over the integers, for 0 <= di <= dt, dt > 0.
FloorPercent(dt, di) ==
    CHOOSE r \in 0..100 :
        /\ ~LimbsLt(WideMul(U64Sub(dt, di), 100), WideMul(dt, r))
        /\ LimbsLt(WideMul(U64Sub(dt, di), 100), WideMul(dt, r + 1))

\* C4: with a baseline, total above the baseline total and the idle time
\* advanced by no more than the total, the sample returns
\* floor((diffTotal - diffIdle) * 100 / diffTotal) and the counters become
\* the baseline.
C4_DeltaPercent ==
    [][\A c \in CPUs :
         LET total == StatTotal(kcpustat'[c])
             idle  == StatIdleAll(kcpustat'[c])
             dt    == U64Sub(total, prev_total[c])
             di    == U64Sub(idle, prev_idle[c])
         IN  (/\ SampleStep(c)
              /\ prev_total[c] # U64Zero
              /\ U64Lt(prev_total[c], total)
              /\ ~U64Lt(idle, prev_idle[c])
              /\ ~U64Lt(dt, di))
             => /\ w'.load = FloorPercent(dt, di)
                /\ BaselineIs(prev_total', prev_idle', c, kcpustat'[c])]_vars

\* C5: a sample that finds the total below the baseline total returns 0 and
\* makes the counters the baseline.
C5_ResetReturnsZero ==
    [][\A c \in CPUs :
         (/\ SampleStep(c)
          /\ prev_total[c] # U64Zero
          /\ U64Lt(StatTotal(kcpustat'[c]), prev_total[c]))
         => /\ w'.load = 0
            /\ BaselineIs(prev_total', prev_idle', c, kcpustat'[c])]_vars

\* C8: the stored pair (current_load, max_load) is always the pair one
\* cycle computed (initially (0, 0)), never a mix of two cycles.
C8_SnapshotCoherent == <<current_load, max_load>> = snapshot

\* C9: once cancel_delayed_work_sync has returned, and so once module exit
\* has returned, no cycle runs, no timer is armed, and current_load and
\* max_load never change.
C9_NoCycleAfterShutdown ==
    /\ [](mpc \in {"exit_sysfs", "removed"} => wpc = "idle" /\ ~work_pending)
    /\ [][(mpc \in {"exit_sysfs", "removed"}) =>
            (current_load' = current_load /\ max_load' = max_load)]_vars

\* Module exit has returned after a shutdown requested while a cycle was
\* running, which went on to publish.
C9_Witness ==
    /\ mpc = "removed"
    /\ cancel_met = "running"
    /\ max_load > 0

\* C10: while the module is live, a timer fire starts a cycle and the cycle
\* ends by arming the timer again; so, the work being scheduled fairly, a
\* live module publishes again and again until shutdown is requested.
C10_CycleRearms ==
    /\ [][(mpc = "live" /\ mpc' = "live" /\ work_pending /\ ~work_pending')
            => (wpc = "idle" /\ wpc' = "loop")]_vars
    /\ [][(mpc = "live" /\ mpc' = "live" /\ wpc = "rearm" /\ wpc' = "idle")
            => work_pending']_vars
    /\ (mpc = "live") ~> (wpc = "rearm" \/ mpc # "live")

\* A cycle that sampled a full load has ended and the timer is armed again.
C10_Witness ==
    /\ mpc = "live"
    /\ wpc = "idle"
    /\ work_pending
    /\ max_load > 0

\* A text that is no number: empty, or with a character that is neither a
\* digit, a sign nor a newline.
NonNumeric(buf) ==
    buf = <<>> \/ \E i \in 1..Len(buf) : ~IsDigit(buf[i]) /\ buf[i] \notin {"-", "+", "\n"}

\* A caller enters a store handler with the text it wrote.
StoreStep(c) ==
    /\ caller[c].pc = "idle"
    /\ caller'[c].op \in {"boost_store", "target_pid_store"}

\* C12: a store of non-numeric text changes neither boost_level nor
\* target_pid nor any process's nice value, does not enter
\* apply_boost_to_target, and returns the byte count.
C12_NonNumericWrite ==
    [][\A c \in Callers :
         (StoreStep(c) /\ NonNumeric(caller'[c].buf))
         => /\ boost_level' = boost_level
            /\ target_pid' = target_pid
            /\ task_nice' = task_nice
            /\ caller'[c].pc = "ret"
            /\ caller'[c].ret = Len(caller'[c].buf)]_vars

\* Both stores have returned from non-numeric text with a boost level and
\* a target set before.
C12_Witness ==
    /\ caller[1].pc = "ret" /\ caller[1].op = "boost_store"
    /\ caller[1].buf = <<"a", "b", "c">> /\ caller[1].ret = 3
    /\ caller[2].pc = "ret" /\ caller[2].op = "target_pid_store"
    /\ caller[2].buf = <<"2", " ">>
    /\ boost_level = 2
    /\ target_pid = 1
    /\ task_nice[1] = -5

\* C13: a store of a negative number to target_pid stores 0, and
\* target_pid is never negative.
C13_TargetPidNonNegative ==
    /\ [](target_pid >= 0)
    /\ [][\A c \in Callers :
            (/\ StoreStep(c)
             /\ caller'[c].op = "target_pid_store"
             /\ kstrtoint(caller'[c].buf).rc = 0
             /\ kstrtoint(caller'[c].buf).val < 0)
            => target_pid' = 0]_vars

\* A store of -7 has cleared a target that had been boosted.
C13_Witness ==
    /\ caller[1].pc = "store_256" /\ caller[1].op = "target_pid_store"
    /\ caller[1].buf = <<"-", "7">>
    /\ target_pid = 0
    /\ task_nice[1] = -10

\* The number a caller inside a store handler wrote (kstrtoint accepted it).
Wrote(c, name, n) ==
    /\ caller[c].op = name
    /\ kstrtoint(caller[c].buf).rc = 0
    /\ kstrtoint(caller[c].buf).val = n

\* The handler of caller c returns with this step.
Returns(c) == caller[c].pc \notin {"idle", "ret"} /\ caller'[c].pc = "ret"

\* C14: a target_pid store of 0 stores 0 and never enters
\* apply_boost_to_target; a store of p > 0 stores p, and it returns from
\* set_user_nice, which gave a live process p the nice value mapped from the
\* boost level read in the call.
C14_TargetPidWrite ==
    /\ [](\A c \in Callers :
            Wrote(c, "target_pid_store", 0) => caller[c].pc \in {"store_256", "ret"})
    /\ [][\A c \in Callers :
            (/\ StoreStep(c)
             /\ caller'[c].op = "target_pid_store"
             /\ kstrtoint(caller'[c].buf).rc = 0
             /\ kstrtoint(caller'[c].buf).val >= 0)
            => target_pid' = kstrtoint(caller'[c].buf).val]_vars
    /\ [][\A c \in Callers : \A p \in LivePids :
            (Wrote(c, "target_pid_store", p) /\ Returns(c))
            => /\ caller[c].pc = "apply_157"
               /\ task_nice'[p] = caller[c].new_nice]_vars

\* The documented table of nice values, by boost level 0..3.
NiceTable == <<0, -2, -5, -10>>

\* C15: with one writer at a time, a boost_level store of a number stores
\* its clamp to 0..3 and goes on into apply_boost_to_target; when it
\* returns and target_pid names a live process, that process has the nice
\* value of the stored level, whether or not the level changed.
C15_BoostWriteApplies ==
    /\ [][\A c \in Callers :
            (/\ StoreStep(c)
             /\ caller'[c].op = "boost_store"
             /\ kstrtoint(caller'[c].buf).rc = 0)
            => /\ boost_level' = Clamp(kstrtoint(caller'[c].buf).val, 0, 3)
               /\ caller'[c].pc = "apply_133"]_vars
    /\ [][\A c \in Callers :
            (/\ caller[c].op = "boost_store"
             /\ kstrtoint(caller[c].buf).rc = 0
             /\ Returns(c)
             /\ target_pid \in LivePids)
            => /\ boost_level' = Clamp(kstrtoint(caller[c].buf).val, 0, 3)
               /\ task_nice'[target_pid] = NiceTable[boost_level' + 1]]_vars

\* A boost_level store of 7 has returned after giving the live target the
\* nice value of level 3.
C15_Witness ==
    /\ caller[1].pc = "ret" /\ caller[1].op = "boost_store"
    /\ caller[1].buf = <<"7">> /\ caller[1].diag = "applying"
    /\ boost_level = 3
    /\ target_pid = 1
    /\ task_nice[1] = -10

\* The decimal numeral of n in 0..99.
DecimalOf(n) ==
    IF n < 10 THEN <<Digits[n + 1]>>
    ELSE <<Digits[(n \div 10) + 1], Digits[(n % 10) + 1]>>

\* Caller c is in the store handler `name` (or back from it) with the
\* numeral of n as its text, with or without the newline of echo.
WroteNumeral(c, name, n) ==
    /\ caller[c].pc # "idle"
    /\ caller[c].op = name
    /\ caller[c].buf \in {DecimalOf(n), DecimalOf(n) \o <<"\n">>}

\* Caller c enters the show handler `name` with this step.
ShowStep(c, name) == caller[c].pc = "idle" /\ caller'[c].op = name

\* C16: with one writer, a read of boost_level that follows the store of a
\* numeral v in 0..3 returns the numeral of v and a newline, and a read of
\* target_pid that follows the store of a numeral p >= 0 returns the
\* numeral of p and a newline.
C16_WriteReadRoundTrip ==
    [][\A c \in Callers :
         /\ \A v \in 0..3 :
              (WroteNumeral(1, "boost_store", v) /\ ShowStep(c, "boost_show"))
              => /\ caller'[c].out = DecimalOf(v) \o <<"\n">>
                 /\ caller'[c].ret = Len(DecimalOf(v)) + 1
         /\ \A p \in 0..99 :
              (WroteNumeral(1, "target_pid_store", p) /\ ShowStep(c, "target_pid_show"))
              => /\ caller'[c].out = DecimalOf(p) \o <<"\n">>
                 /\ caller'[c].ret = Len(DecimalOf(p)) + 1]_vars

\* The reader has read "12\n" from target_pid while the store of "12" was
\* returning.
C16_Witness ==
    /\ caller[1].pc = "ret" /\ caller[1].op = "target_pid_store"
    /\ caller[1].buf = <<"1", "2">>
    /\ caller[2].pc = "ret" /\ caller[2].op = "target_pid_show"
    /\ caller[2].out = <<"1", "2", "\n">>

\* C17: apply_boost_to_target entered while target_pid is 0 returns at
\* once: no nice value and no module variable changes, and the store that
\* called it still returns its byte count.
C17_NoTargetNoOp ==
    [][\A c \in Callers :
         (/\ caller[c].pc = "apply_133"
          /\ caller'[c].pc # "apply_133"
          /\ target_pid = 0)
         => /\ caller'[c].pc = "ret"
            /\ caller'[c].diag = "no target_pid set"
            /\ caller'[c].ret = Len(caller[c].buf)
            /\ task_nice' = task_nice
            /\ modvars' = modvars]_vars

\* A boost_level store of 3 has returned from apply_boost_to_target with
\* no target set; the former target keeps the nice value of level 2.
C17_Witness ==
    /\ caller[1].pc = "ret" /\ caller[1].op = "boost_store"
    /\ caller[1].diag = "no target_pid set"
    /\ boost_level = 3
    /\ target_pid = 0
    /\ task_nice[1] = -5

\* The text of caller c after this step is a number (kstrtoint accepts it)
\* that names no live process.
WritesDeadPid(c) ==
    /\ caller'[c].op = "target_pid_store"
    /\ caller'[c].pc # "idle"
    /\ kstrtoint(caller'[c].buf).rc = 0
    /\ kstrtoint(caller'[c].buf).val > 0
    /\ kstrtoint(caller'[c].buf).val \notin LivePids

\* C18: a target_pid store of p > 0 that names no live process stores p,
\* and no step of that call changes boost_level, current_load, max_load or
\* a nice value; the call returns its byte count.  While target_pid names
\* no live process, apply_boost_to_target returns from its lookup without
\* changing a nice value or target_pid.
C18_DeadTargetNoOp ==
    /\ [][\A c \in Callers :
            (caller'[c] # caller[c] /\ WritesDeadPid(c))
            => /\ StoreStep(c) => target_pid' = kstrtoint(caller'[c].buf).val
               /\ boost_level' = boost_level
               /\ current_load' = current_load
               /\ max_load' = max_load
               /\ task_nice' = task_nice
               /\ caller'[c].ret = Len(caller'[c].buf)]_vars
    /\ [][\A c \in Callers :
            (/\ caller[c].pc = "apply_138"
             /\ caller'[c].pc # "apply_138"
             /\ target_pid > 0
             /\ target_pid \notin LivePids)
            => /\ caller'[c].pc = "ret"
               /\ task_nice' = task_nice
               /\ target_pid' = target_pid]_vars

\* C19: apply_boost_to_target run again for the (target_pid, boost_level)
\* of a run that has already set the target's nice value leaves every nice
\* value as it is and returns without error.
C19_ApplyIdempotent ==
    [][\A c \in Callers :
         (/\ caller[c].pc = "apply_157"
          /\ caller'[c].pc = "ret"
          /\ caller[c].task = target_pid
          /\ caller[c].new_nice = NiceTable[boost_level + 1]
          /\ task_nice[target_pid] = NiceTable[boost_level + 1])
         => /\ task_nice' = task_nice
            /\ caller'[c].ret = Len(caller[c].buf)]_vars

\* Two boost_level stores of 2 have both returned from set_user_nice on
\* the same target, which has the nice value of level 2.
C19_Witness ==
    /\ \A c \in {1, 2} :
          /\ caller[c].pc = "ret" /\ caller[c].op = "boost_store"
          /\ caller[c].buf = <<"2">> /\ caller[c].diag = "applying"
          /\ caller[c].task = 1 /\ caller[c].new_nice = -5
    /\ boost_level = 2
    /\ target_pid = 1
    /\ task_nice[1] = -5

C21_MapStrictlyOrdered ==
    (mapped.called /\ mapped.level \in 0..3)
    => \A a \in 0..3 :
         /\ a < mapped.level => mapped.nice < boost_to_nice(a)
         /\ a > mapped.level => mapped.nice > boost_to_nice(a)

\* boost_to_nice(2) has returned -5.
C21_Witness ==
    /\ mapped.called
    /\ mapped.level = 2
    /\ mapped.nice = -5

\* C22: when adaptive_sched_init fails it returns an error with the
\* kobject and the attribute group released and no timer armed, and from
\* then on nothing is acquired and no cycle runs.
C22_FailedStartReleases ==
    /\ [](mpc = "failed"
          => /\ init_ret < 0
             /\ ~adaptive_kobj
             /\ ~sysfs_group
             /\ ~work_pending
             /\ wpc = "idle"
             /\ sampled = {})
    /\ [][(mpc = "failed") => (mpc' = "failed")]_vars

\* adaptive_sched_init has failed in sysfs_create_group, after the kobject
\* had been created.
C22_Witness ==
    /\ mpc = "failed"
    /\ init_ret = -17
    /\ ~adaptive_kobj

\* C23: the loop calls get_cpu_load for online CPUs only; a cycle that met
\* no hotplug has counted exactly the online CPUs, and its sum and maximum
\* are over those; no cycle raises a fault.
C23_OfflineCoreOmitted ==
    /\ [][(wpc = "loop" /\ wpc' = "accum") => (w'.cpu \in cpu_online_mask)]_vars
    /\ []((wpc \in {"store_avg", "store_max", "rearm"} /\ ~hotplugged)
          => /\ DOMAIN perCoreLoad = cpu_online_mask
             /\ w.cnt = Cardinality(cpu_online_mask)
             /\ w.sum = SumOver(perCoreLoad, cpu_online_mask)
             /\ w.local_max = MaxOver(perCoreLoad, cpu_online_mask))
    /\ []~oops

\* A cycle has published the load of CPU 1 alone: CPU 0, sampled in an
\* earlier cycle, is offline.
C23_Witness ==
    /\ wpc = "rearm"
    /\ ~hotplugged
    /\ cpu_online_mask = {1}
    /\ 0 \in sampled
    /\ w.cnt = 1
    /\ current_load = 55
    /\ max_load = 55

\* C24: the first sample of a CPU that went offline since its last sample
\* returns 0 and makes the counters its baseline.
C24_BaselineDiscarded ==
    [][\A c \in CPUs :
         (SampleStep(c) /\ c \in lapsed)
         => /\ w'.load = 0
            /\ BaselineIs(prev_total', prev_idle', c, kcpustat'[c])]_vars

\* C25: cancel_delayed_work_sync returns only when no cycle is in flight,
\* so a cycle running at the request has stored both current_load and
\* max_load by then; and module exit, once begun, does return.
C25_ShutdownWaitsForCycle ==
    /\ [][(mpc = "exit_sync" /\ mpc' # "exit_sync") => (wpc = "idle")]_vars
    /\ [](mpc \in {"exit_sysfs", "removed"}
          => (wpc = "idle" /\ <<current_load, max_load>> = snapshot))
    /\ (mpc = "exit_sync") ~> (mpc = "removed")

\* cancel_delayed_work_sync has returned from a request that met a running
\* cycle, whose average and maximum are both stored.
C25_Witness ==
    /\ mpc = "exit_sysfs"
    /\ cancel_met = "running"
    /\ current_load > 0
    /\ <<current_load, max_load>> = snapshot

\* C26: get_cpu_load touches the baseline tables at indices below NR_CPUS
\* only: the loop passes it CPUs of the tables, and for an identifier at or
\* past NR_CPUS it returns 0 and leaves both tables as they are.
C26_BaselineTableBounds ==
    /\ [](DOMAIN prev_total = CPUs /\ DOMAIN prev_idle = CPUs /\ ~oops)
    /\ [][(wpc = "loop" /\ wpc' = "accum") => (w'.cpu \in CPUs)]_vars
    /\ [][(probed' # probed /\ probed'.cpu >= NR_CPUS)
            => /\ probed'.ret = 0
               /\ prev_total' = prev_total
               /\ prev_idle' = prev_idle]_vars

\* get_cpu_load has returned for the identifier NR_CPUS while CPU 1, which
\* has a baseline, is offline.
C26_Witness ==
    /\ probed.cpu = NR_CPUS
    /\ probed.ret = 0
    /\ 1 \notin cpu_online_mask
    /\ prev_total[1] # U64Zero

\* C27: whenever no store handler is running and target_pid names a live
\* process, that process has the nice value of the stored boost_level.
C27_WritersConverge ==
    (/\ \A c \in Callers : caller[c].pc \in {"idle", "ret"}
     /\ target_pid \in LivePids)
    => task_nice[target_pid] = NiceTable[boost_level + 1]

(***************************************************************************)
(* The single-core module, src/adaptive_sched.c.  It samples CPU 0 only:   *)
(* its scalars prev_total and prev_idle are the entries of CPU 0 here, and *)
(* load_work_func writes current_load before it clamps it.                 *)
(***************************************************************************)
\* get_cpu_load(0) of the single-core module, lines 77-116: no test of the
\* CPU number, one baseline.
get_cpu_load_v04(st, pt, pi) ==
    LET idle_all   == StatIdleAll(st)
        total      == StatTotal(st)
        diff_total == U64Sub(total, pt[0])
        diff_idle  == U64Sub(idle_all, pi[0])
        npt        == [pt EXCEPT ![0] = total]
        npi        == [pi EXCEPT ![0] = idle_all]
    IN  IF pt[0] = U64Zero
        THEN [ret |-> 0, prev_total |-> npt, prev_idle |-> npi]
        ELSE IF diff_total = U64Zero
        THEN [ret |-> 0, prev_total |-> npt, prev_idle |-> npi]
        ELSE [ret |-> load_quotient(diff_total, diff_idle),
              prev_total |-> npt, prev_idle |-> npi]

\* The timer of load_work expires and a worker enters load_work_func of the
\* single-core module (line 280).
delayed_work_fire_v04 ==
    /\ work_pending
    /\ wpc = "idle"
    /\ work_pending' = FALSE
    /\ wpc' = "v04_284"
    /\ UNCHANGED <<modvars, lifevars, work_canceling, w, caller, envvars,
                   histvars>>

\* Line 284: current_load = get_cpu_load(0).  current_load is a plain int
\* read concurrently by load_show: the build either stores the sampler's
\* result as written, or keeps it in a register and stores the clamped
\* value only.
load_work_func_v04_284(Stats) ==
    /\ wpc = "v04_284"
    /\ \E st \in Stats :
         LET r == get_cpu_load_v04(st, prev_total, prev_idle)
         IN  /\ kcpustat' = [kcpustat EXCEPT ![0] = st]
             /\ prev_total' = r.prev_total
             /\ prev_idle' = r.prev_idle
             /\ w' = [w EXCEPT !.load = r.ret]
             /\ current_load' \in {r.ret, clamp_load(r.ret)}
    /\ wpc' = "v04_286"
    /\ UNCHANGED <<boost_level, max_load, target_pid, lifevars, work_pending,
                   work_canceling, caller, cpu_online_mask, task_nice,
                   histvars>>

\* Lines 286-287: if (current_load < 0) current_load = 0.
load_work_func_v04_286 ==
    /\ wpc = "v04_286"
    /\ current_load' = IF current_load < 0 THEN 0 ELSE current_load
    /\ wpc' = "v04_288"
    /\ UNCHANGED <<boost_level, max_load, target_pid, prev_idle, prev_total,
                   lifevars, work_pending, work_canceling, w, caller, envvars,
                   histvars>>

\* Lines 288-289: if (current_load > 100) current_load = 100.
load_work_func_v04_288 ==
    /\ wpc = "v04_288"
    /\ current_load' = IF current_load > 100 THEN 100 ELSE current_load
    /\ wpc' = "v04_293"
    /\ UNCHANGED <<boost_level, max_load, target_pid, prev_idle, prev_total,
                   lifevars, work_pending, work_canceling, w, caller, envvars,
                   histvars>>

\* Line 293: re-arm the timer and return.
load_work_func_v04_293 ==
    /\ wpc = "v04_293"
    /\ work_pending' = schedule_delayed_work(work_pending, work_canceling)
    /\ wpc' = "idle"
    /\ w' = WorkLocals
    /\ UNCHANGED <<modvars, lifevars, work_canceling, caller, envvars,
                   histvars>>

\* load_show of the single-core module, lines 206-211.
load_show_v04(c) ==
    /\ CanEnter(c)
    /\ Shown(c, "load_show_v04", current_load)
    /\ UNCHANGED <<modvars, lifevars, workvars, envvars, histvars>>

\* The single-core module loaded: its periodic work and readers of
\* current_load.
SingleCoreNext ==
    \/ delayed_work_fire_v04
    \/ load_work_func_v04_284(CpuStats)
    \/ load_work_func_v04_286
    \/ load_work_func_v04_288
    \/ load_work_func_v04_293
    \/ \E c \in Callers : load_show_v04(c)
    \/ \E c \in Callers : sysfs_return(c)

SingleCoreSpec == InitLive /\ [][SingleCoreNext]_vars

\* C28: in the single-core module every read of current_load returns the
\* text of a value in 0..100, wherever the read falls in a running cycle.
C28_SingleCoreReadInRange ==
    \A c \in Callers :
        (caller[c].pc = "ret" /\ caller[c].op = "load_show_v04")
        => \E n \in 0..100 : caller[c].out = scnprintf(n)

\* C29: with a baseline, the total above the baseline total and the idle
\* time advanced by more than the total, the load the cycle takes for that
\* CPU, the clamp of the sample, is 0.
C29_IdleBeyondTotalZero ==
    [][\A c \in CPUs :
         LET total == StatTotal(kcpustat'[c])
             idle  == StatIdleAll(kcpustat'[c])
             dt    == U64Sub(total, prev_total[c])
             di    == U64Sub(idle, prev_idle[c])
         IN  (/\ SampleStep(c)
              /\ prev_total[c] # U64Zero
              /\ U64Lt(prev_total[c], total)
              /\ ~U64Lt(idle, prev_idle[c])
              /\ U64Lt(dt, di))
             => Clamp(w'.load, 0, 100) = 0]_vars

\* C30: no step of the periodic work changes boost_level, target_pid or the
\* nice value of any process; every change of one of them is a step of a
\* caller inside boost_store or target_pid_store.
C30_CycleLeavesBoostAlone ==
    /\ [][wpc' # wpc => /\ boost_level' = boost_level
                        /\ target_pid' = target_pid
                        /\ task_nice' = task_nice]_vars
    /\ [][(\/ boost_level' # boost_level
           \/ target_pid' # target_pid
           \/ task_nice' # task_nice)
          => \E c \in Callers :
               /\ caller'[c] # caller[c]
               /\ caller'[c].op \in {"boost_store", "target_pid_store"}]_vars

\* A cycle that measured a busy CPU has stored its maximum while a boost is
\* applied to the target.
C30_Witness ==
    /\ wpc = "rearm"
    /\ max_load > 0
    /\ boost_level = 2
    /\ target_pid = 1
    /\ task_nice[1] = -5

\* C31: a step of boost_store leaves target_pid as it was, a step of
\* target_pid_store leaves boost_level as it was, no step of either changes
\* current_load, max_load or a baseline, and a show handler changes none of
\* the module's variables nor any nice value.
C31_AttributeFrame ==
    [][\A c \in Callers :
         caller'[c] # caller[c] =>
           /\ caller'[c].op = "boost_store" => target_pid' = target_pid
           /\ caller'[c].op = "target_pid_store" => boost_level' = boost_level
           /\ caller'[c].op \in {"boost_store", "target_pid_store"}
                => /\ current_load' = current_load
                   /\ max_load' = max_load
                   /\ prev_total' = prev_total
                   /\ prev_idle' = prev_idle
           /\ caller'[c].op \in {"boost_show", "load_show", "max_load_show",
                                 "target_pid_show"}
                => /\ modvars' = modvars
                   /\ task_nice' = task_nice]_vars

\* A target_pid write has returned while a boost is stored and a cycle has
\* published a load.
C31_Witness ==
    /\ caller[1].pc = "ret"
    /\ caller[1].op = "target_pid_store"
    /\ target_pid = 1
    /\ boost_level = 2
    /\ max_load > 0
    /\ prev_total[0] # U64Zero

\* The state of the periodic task: the work taken by
\* cancel_delayed_work_sync, load_work_func in flight, the timer armed, or
\* none of these.
PeriodicState ==
    IF work_canceling THEN "Cancelling"
    ELSE IF wpc # "idle" THEN "Running"
    ELSE IF work_pending THEN "Scheduled"
    ELSE "Stopped"

PeriodicSteps ==
    { <<"Stopped", "Scheduled">>, <<"Scheduled", "Running">>,
      <<"Running", "Scheduled">>, <<"Running", "Cancelling">>,
      <<"Cancelling", "Stopped">>, <<"Scheduled", "Cancelling">> }

\* C32: the periodic task changes state only along Stopped -> Scheduled ->
\* Running -> Scheduled, Running -> Cancelling -> Stopped and the
\* cancellation of a pending timer; the timer is never armed while
\* load_work_func runs or while the work is being cancelled, so no second
\* cycle can start beside a running one.
C32_PeriodicTransitions ==
    /\ [][PeriodicState' # PeriodicState
            => <<PeriodicState, PeriodicState'>> \in PeriodicSteps]_vars
    /\ [](~(work_pending /\ wpc # "idle"))
    /\ [](work_canceling => ~work_pending)

\* The module has been removed after a shutdown that met a running cycle,
\* and cycles had completed before.
C32_Witness ==
    /\ mpc = "removed"
    /\ cancel_met = "running"
    /\ max_load > 0
    /\ PeriodicState = "Stopped"

\* C33: the step that removes the attribute group and the kobject finds the
\* work cancelled and drained, and while the group is not there no cycle
\* runs and no timer is armed.
C33_TeardownOrder ==
    /\ [](~sysfs_group => wpc = "idle" /\ ~work_pending /\ ~work_canceling)
    /\ [][(sysfs_group /\ ~sysfs_group')
            => /\ wpc = "idle"
               /\ ~work_pending
               /\ ~work_canceling
               /\ mpc = "exit_sysfs"
               /\ ~adaptive_kobj']_vars

\* The group and the kobject are gone after a shutdown that met a running
\* cycle.
C33_Witness ==
    /\ ~sysfs_group
    /\ ~adaptive_kobj
    /\ mpc = "removed"
    /\ cancel_met = "running"
    /\ sampled # {}

\* C34: when adaptive_sched_init returns, boost_level, target_pid,
\* current_load and max_load are 0; until the first cycle has stored both
\* loads they stay 0 and every read of them returns "0\n"; every sample of
\* the first cycle returns 0, and the first values stored are 0 and 0.
C34_StartsAtZero ==
    /\ [][(mpc = "init_work" /\ mpc' = "live")
            => /\ boost_level' = 0
               /\ target_pid' = 0
               /\ current_load' = 0
               /\ max_load' = 0]_vars
    /\ [](published < 2 => current_load = 0 /\ max_load = 0)
    /\ [][\A c \in Callers :
            (/\ published < 2
             /\ caller'[c] # caller[c]
             /\ caller'[c].op \in {"load_show", "max_load_show"})
            => caller'[c].out = <<"0", "\n">>]_vars
    /\ [][\A c \in CPUs : (SampleStep(c) /\ published = 0) => w'.load = 0]_vars
    /\ [][(published = 0 /\ published' = 1) => current_load' = 0]_vars
    /\ [][(published = 1 /\ published' = 2)
            => current_load' = 0 /\ max_load' = 0]_vars

\* The first cycle has stored both loads after it sampled two CPUs whose
\* counters were not zero, and the loads were read before.
C34_Witness ==
    /\ published = 2
    /\ wpc = "rearm"
    /\ Cardinality(DOMAIN perCoreLoad) = 2
    /\ \A c \in CPUs : prev_total[c] # U64Zero
    /\ max_load = 0
    /\ caller[1].op = "load_show"
    /\ caller[1].out = <<"0", "\n">>

\* C35: when a cycle has stored both loads, max_load >= current_load, and
\* max_load = current_load when the cycle sampled exactly one CPU; the
\* order holds in every state but the one between the two stores.
C35_MaxAtLeastAverage ==
    /\ [](wpc # "store_max" => max_load >= current_load)
    /\ [][(wpc = "store_max" /\ wpc' = "rearm")
            => /\ max_load' >= current_load'
               /\ w.cnt = 1 => max_load' = current_load']_vars

\* A cycle that sampled one CPU, the other being offline, has stored a load
\* above 0.
C35_Witness ==
    /\ wpc = "rearm"
    /\ w.cnt = 1
    /\ Cardinality(cpu_online_mask) = 1
    /\ current_load > 0
    /\ max_load = current_load

\* The table pt with every entry but that of CPU c cleared.
OnlyEntry(pt, c) == [d \in DOMAIN pt |-> IF d = c THEN pt[c] ELSE U64Zero]

\* C36: a sample of CPU c leaves the baseline of every other CPU as it was,
\* returns what it would return with the other baselines cleared, and,
\* when the total it read is not 0, leaves the counters it read as the
\* baseline of c, whatever it returned.
C36_SampleOwnBaseline ==
    [][\A c \in CPUs :
         SampleStep(c) =>
           /\ \A d \in CPUs \ {c} : /\ prev_total'[d] = prev_total[d]
                                    /\ prev_idle'[d] = prev_idle[d]
           /\ w'.load = get_cpu_load(c, kcpustat'[c], OnlyEntry(prev_total, c),
                                     OnlyEntry(prev_idle, c)).ret
           /\ StatTotal(kcpustat'[c]) # U64Zero
                => BaselineIs(prev_total', prev_idle', c, kcpustat'[c])]_vars

\* After the first cycle a sample of CPU 1 has returned 0 and stored its
\* counters, beside another baseline of CPU 0.
C36_Witness ==
    /\ wpc = "accum"
    /\ published = 2
    /\ w.cpu = 1
    /\ w.load = 0
    /\ prev_total[1] # U64Zero
    /\ BaselineIs(prev_total, prev_idle, 1, kcpustat[1])
    /\ prev_total[0] # U64Zero
    /\ prev_total[0] # prev_total[1]

\* C37: the nice value of a live process p changes only by set_user_nice in
\* a handler that looked p up while target_pid was p; the step that stores a
\* new target_pid changes no nice value.  So a write that moves target_pid
\* away from p leaves the nice value of p, and a write that finds target_pid
\* naming 0 or another pid cannot reach p.
C37_FormerTargetKeepsNice ==
    /\ [][\A p \in LivePids :
            task_nice'[p] # task_nice[p]
            => \E c \in Callers : /\ caller[c].pc = "apply_157"
                                  /\ caller[c].task = p
                                  /\ caller'[c].pc = "ret"]_vars
    /\ [][\A c \in Callers : \A p \in LivePids :
            (caller[c].task # p /\ caller'[c].task = p)
            => caller[c].pc = "apply_138" /\ target_pid = p]_vars
    /\ [][target_pid' # target_pid => task_nice' = task_nice]_vars

\* Process 1 was boosted to level 2 as the target; target_pid was then set
\* to 0 and a write of boost_level 3 has returned.
C37_Witness ==
    /\ target_pid = 0
    /\ task_nice[1] = -5
    /\ boost_level = 3
    /\ caller[1].op = "boost_store"
    /\ caller[1].pc = "ret"
    /\ caller[2].pc = "idle"

\* C38: a CPU whose previous sample read a total of exactly 0 has the
\* baseline total 0 of a CPU never sampled: its next sample returns 0,
\* whatever the counters are now, and stores them as the baseline.
C38_ZeroBaselineIsNone ==
    /\ [](\A c \in sampled :
            StatTotal(kcpustat[c]) = U64Zero => prev_total[c] = U64Zero)
    /\ [][\A c \in CPUs :
            (/\ SampleStep(c)
             /\ c \in sampled
             /\ StatTotal(kcpustat[c]) = U64Zero)
            => /\ w'.load = 0
               /\ BaselineIs(prev_total', prev_idle', c, kcpustat'[c])]_vars

\* After the first cycle, CPU 1 has been sampled with every counter 0 and
\* holds the baseline total 0 of a CPU never sampled, while a later sample
\* of CPU 0 has returned 0 and stored counters above 0.
C38_Witness ==
    /\ published = 2
    /\ wpc = "accum"
    /\ w.cpu = 0
    /\ w.load = 0
    /\ prev_total[0] # U64Zero
    /\ 1 \in sampled
    /\ kcpustat[1] = StatZero
    /\ prev_total[1] = U64Zero

====
